---- MODULE Spec2Model ----
(***************************************************************************)
(* Movie Selector (movie_selector.py): the catalogue queries               *)
(* fetch_all_movies / apply_filters, the selection prompts                 *)
(* prompt_choose_genres / prompt_choose_years, and the menu session        *)
(* main / filter_menu.                                                     *)
(*                                                                         *)
(* A string is a sequence of characters; a character is one of the short   *)
(* strings of Chars.  "Eacute"/"eacute" stand for the letters U+00C9 and   *)
(* U+00E9, "sup2" for U+00B2 (SUPERSCRIPT TWO).                            *)
(***************************************************************************)
EXTENDS Integers, Sequences, FiniteSets, TLC

(***************************************************************************)
(* Bounds of the model.                                                    *)
(***************************************************************************)
\* longest raw line typed at a prompt
MaxRaw == 3
\* most rows of the Movie table
MaxMovies == 2

(***************************************************************************)
(* Characters and the library functions on strings the program uses.      *)
(***************************************************************************)
InputChars == {"A", "a", "Eacute", "1", "2", "sup2", ",", " "}

\* code point of a character: the order of str comparison in Python and of
\* SQLite's BINARY collation (UTF-8 byte order is code point order)
Code(c) ==
    CASE c = " " -> 32
      [] c = "," -> 44
      [] c = "0" -> 48
      [] c = "1" -> 49
      [] c = "2" -> 50
      [] c = "A" -> 65
      [] c = "a" -> 97
      [] c = "sup2" -> 178
      [] c = "Eacute" -> 201
      [] c = "eacute" -> 233

\* s < t for strings, lexicographic by code point
RECURSIVE StrLess(_, _)
StrLess(s, t) ==
    IF t = <<>> THEN FALSE
    ELSE IF s = <<>> THEN TRUE
    ELSE IF Head(s) = Head(t) THEN StrLess(Tail(s), Tail(t))
    ELSE Code(Head(s)) < Code(Head(t))

\* Python str.lower() on one character: Unicode case folding
PyLowerChar(c) ==
    CASE c = "A" -> "a"
      [] c = "Eacute" -> "eacute"
      [] OTHER -> c

PyLower(s) == [i \in 1..Len(s) |-> PyLowerChar(s[i])]

\* SQLite's built-in lower() on one character: ASCII letters only
SqlLowerChar(c) == IF c = "A" THEN "a" ELSE c

SqlLower(s) == [i \in 1..Len(s) |-> SqlLowerChar(s[i])]

\* str.strip(): whitespace removed at both ends
RECURSIVE LStrip(_)
LStrip(s) == IF s # <<>> /\ Head(s) = " " THEN LStrip(Tail(s)) ELSE s

RECURSIVE RStrip(_)
RStrip(s) ==
    IF s # <<>> /\ s[Len(s)] = " " THEN RStrip(SubSeq(s, 1, Len(s) - 1)) ELSE s

Strip(s) == RStrip(LStrip(s))

\* str.split(","): the pieces between commas, empty pieces included
RECURSIVE SplitFrom(_, _)
SplitFrom(s, cur) ==
    IF s = <<>> THEN <<cur>>
    ELSE IF Head(s) = "," THEN <<cur>> \o SplitFrom(Tail(s), <<>>)
    ELSE SplitFrom(Tail(s), Append(cur, Head(s)))

Split(s) == SplitFrom(s, <<>>)

\* str.isdigit(): non-empty and every character has the Unicode property
\* Digit, which SUPERSCRIPT TWO has
IsDigitChar(c) == c \in {"0", "1", "2", "sup2"}

IsDigit(s) == s # <<>> /\ \A i \in 1..Len(s) : IsDigitChar(s[i])

\* int() accepts the decimal digits only
IsDecimalChar(c) == c \in {"0", "1", "2"}

DigitValue(c) == Code(c) - Code("0")

RECURSIVE DecimalValue(_)
DecimalValue(s) ==
    IF s = <<>> THEN 0
    ELSE 10 * DecimalValue(SubSeq(s, 1, Len(s) - 1)) + DigitValue(s[Len(s)])

\* int(tok) and float(raw) raise ValueError on anything but a numeral of
\* decimal digits
ValueError == "ValueError"

IsDecimal(s) == s # <<>> /\ \A i \in 1..Len(s) : IsDecimalChar(s[i])

\* int(tok) of a token int() parses
IntOf(tok) == DecimalValue(tok)

\* float(raw): of the strings over InputChars only the decimal numerals parse
ParsesAsFloat(raw) == IsDecimal(raw)

FloatOf(raw) == DecimalValue(raw)

Range(s) == {s[i] : i \in 1..Len(s)}

\* None and a set value of an optional
None == <<>>

Some(v) == <<v>>

(***************************************************************************)
(* The store: database.db with the tables Genre, Movie, Movie_Genre.  A    *)
(* row's Id is its position in the table.                                  *)
(***************************************************************************)
VARIABLES
    db,               \* the store: [exists, readable, Genre, Movie, Movie_Genre]
    pc,               \* where the program is
    selected_genres,  \* filter_menu's locals: the Filter State
    selected_years,
    min_rating,
    genre_match_all,
    shown,            \* the list handed to display_movies, or None
    last_op,          \* the command handled last
    last_raw,         \* the line typed at a prompt called on its own, or None
    warned,           \* the tokens that prompt reported as ignored
    err               \* the exception an except clause of main printed, or ""

vars == <<db, pc, selected_genres, selected_years, min_rating, genre_match_all,
          shown, last_op, last_raw, warned, err>>

\* SQL NULL
Null == <<"NULL">>

\* what a query on store d raises: connect_db raises FileNotFoundError
\* when database.db is not there, and execute raises DatabaseError on a
\* file that is no database
StoreFailure(d) ==
    IF ~d.exists THEN "FileNotFoundError"
    ELSE IF ~d.readable THEN "sqlite3.DatabaseError"
    ELSE ""

\* SELECT DISTINCT Genre_name FROM Genre ORDER BY Genre_name
RECURSIVE AscendingNames(_)
AscendingNames(S) ==
    IF S = {} THEN <<>>
    ELSE LET m == CHOOSE x \in S : \A y \in S \ {x} : StrLess(x, y)
         IN  <<m>> \o AscendingNames(S \ {m})

get_available_genres(d) == AscendingNames(Range(d.Genre))

\* SELECT DISTINCT Year FROM Movie ORDER BY Year DESC
RECURSIVE DescendingYears(_)
DescendingYears(S) ==
    IF S = {} THEN <<>>
    ELSE LET m == CHOOSE x \in S : \A y \in S \ {x} : x > y
         IN  <<m>> \o DescendingYears(S \ {m})

get_available_years(d) ==
    DescendingYears({d.Movie[i].Year : i \in 1..Len(d.Movie)})

\* Movie LEFT JOIN Movie_Genre LEFT JOIN Genre, the rows of movie mid: the
\* Genre_name of each association row, or a single NULL when it has none
JoinedGenres(d, mid) ==
    LET mg == SelectSeq(d.Movie_Genre, LAMBDA r : r[1] = mid)
    IN  IF mg = <<>> THEN <<Null>>
        ELSE [i \in 1..Len(mg) |-> d.Genre[mg[i][2]]]

\* GROUP_CONCAT(x, ', ') over the rows of a group: NULL values are skipped,
\* and the result is NULL when none is left
RECURSIVE ConcatNames(_)
ConcatNames(names) ==
    IF Len(names) = 1 THEN names[1]
    ELSE names[1] \o <<",", " ">> \o ConcatNames(Tail(names))

GroupConcat(names) ==
    LET present == SelectSeq(names, LAMBDA n : n # Null)
    IN  IF present = <<>> THEN Null ELSE ConcatNames(present)

\* the dict built from a result row; r[4] or "" turns NULL into ""
MovieDict(d, mid, names) ==
    LET g == GroupConcat(names)
    IN  [id |-> mid, title |-> d.Movie[mid].Name, year |-> d.Movie[mid].Year,
         rating |-> d.Movie[mid].Rating, genres |-> IF g = Null THEN <<>> ELSE g]

\* mutant of Precedes: ORDER BY Movie.Year ASC, Movie.Name ASC
PrecedesYearAscending(a, b) ==
    \/ a.year < b.year
    \/ a.year = b.year /\ StrLess(a.title, b.title)

\* ORDER BY Movie.Year DESC, Movie.Name ASC
Precedes(a, b) ==
    \/ a.year > b.year
    \/ a.year = b.year /\ StrLess(a.title, b.title)

\* the sorter: rows with equal keys stay in the order they came in
RECURSIVE InsertRow(_, _)
InsertRow(sorted, r) ==
    IF sorted = <<>> THEN <<r>>
    ELSE IF Precedes(r, Head(sorted)) THEN <<r>> \o sorted
    ELSE <<Head(sorted)>> \o InsertRow(Tail(sorted), r)

RECURSIVE OrderBy(_)
OrderBy(rows) ==
    IF rows = <<>> THEN <<>>
    ELSE InsertRow(OrderBy(SubSeq(rows, 1, Len(rows) - 1)), rows[Len(rows)])

\* mutant of GenreClause: the clause is added without "if selected_genres"
GenreClauseUnguarded(genres, name) ==
    name # Null /\ SqlLower(name) \in {PyLower(g) : g \in Range(genres)}

\* AND lower(Genre.Genre_name) IN (?, ...), the ? being g.lower()
GenreClause(genres, name) ==
    genres = <<>> \/
        (name # Null /\ SqlLower(name) \in {PyLower(g) : g \in Range(genres)})

\* AND Movie.Year IN (?, ...)
YearClause(years, year) == years = <<>> \/ year \in Range(years)

\* AND Movie.Rating >= ?
RatingClause(minr, rating) == minr = None \/ rating >= minr[1]

\* HAVING COUNT(DISTINCT lower(Genre.Genre_name)) >= len(selected_genres)
HavingClause(genres, require_all_genres, names) ==
    (genres # <<>> /\ require_all_genres) =>
        Cardinality({SqlLower(n) : n \in Range(names) \ {Null}}) >= Len(genres)

\* GROUP BY Movie.Id over the rows WHERE keeps: one result row per movie
\* with a row left, in Id order
RECURSIVE GroupBy(_, _, _, _, _, _)
GroupBy(d, mid, genres, years, minr, require_all_genres) ==
    IF mid > Len(d.Movie) THEN <<>>
    ELSE LET kept == SelectSeq(JoinedGenres(d, mid), LAMBDA n :
                        /\ GenreClause(genres, n)
                        /\ YearClause(years, d.Movie[mid].Year)
                        /\ RatingClause(minr, d.Movie[mid].Rating))
             rest == GroupBy(d, mid + 1, genres, years, minr, require_all_genres)
         IN  IF kept # <<>> /\ HavingClause(genres, require_all_genres, kept)
             THEN <<MovieDict(d, mid, kept)>> \o rest
             ELSE rest

apply_filters(d, genres, years, minr, require_all_genres) ==
    OrderBy(GroupBy(d, 1, genres, years, minr, require_all_genres))

RECURSIVE AllGroups(_, _)
AllGroups(d, mid) ==
    IF mid > Len(d.Movie) THEN <<>>
    ELSE <<MovieDict(d, mid, JoinedGenres(d, mid))>> \o AllGroups(d, mid + 1)

fetch_all_movies(d) == OrderBy(AllGroups(d, 1))

(***************************************************************************)
(* The prompts.  A prompt returns a value or raises; the tokens it reports *)
(* as ignored are kept with the value.                                     *)
(***************************************************************************)
Returned(v, w) == [raised |-> "", value |-> v, ignored |-> w]

Raised(e) == [raised |-> e, value |-> <<>>, ignored |-> <<>>]

\* [t.strip() for t in raw.split(",") if t.strip()]
Tokens(raw) ==
    LET pieces == Split(raw)
        stripped == [i \in 1..Len(pieces) |-> Strip(pieces[i])]
    IN  SelectSeq(stripped, LAMBDA t : t # <<>>)

\* the loop of the index branch: int(tok) raises on a token isdigit()
\* accepts and int() does not
RECURSIVE ChosenByIndex(_, _)
ChosenByIndex(available, tokens) ==
    IF tokens = <<>> THEN Returned(<<>>, <<>>)
    ELSE IF ~IsDecimal(Head(tokens)) THEN Raised(ValueError)
    ELSE LET idx == IntOf(Head(tokens)) - 1
             rest == ChosenByIndex(available, Tail(tokens))
         IN  IF rest.raised # "" THEN rest
             ELSE IF 0 <= idx /\ idx < Len(available)
             THEN [rest EXCEPT !.value = <<available[idx + 1]>> \o @]
             ELSE [rest EXCEPT !.ignored = <<Head(tokens)>> \o @]

\* lower_map = {g.lower(): g for g in available}: a later g replaces an
\* earlier one under the same key
InLowerMap(available, key) == \E i \in 1..Len(available) : PyLower(available[i]) = key

\* mutant of LowerMap: chosen.append(key) for chosen.append(lower_map[key])
LowerMapKey(available, key) == key

LowerMap(available, key) ==
    LET i == CHOOSE i \in 1..Len(available) :
                 /\ PyLower(available[i]) = key
                 /\ \A j \in (i + 1)..Len(available) : PyLower(available[j]) # key
    IN  available[i]

\* the loop of the name branch
RECURSIVE ChosenByName(_, _)
ChosenByName(available, tokens) ==
    IF tokens = <<>> THEN Returned(<<>>, <<>>)
    ELSE LET key == PyLower(Head(tokens))
             rest == ChosenByName(available, Tail(tokens))
         IN  IF InLowerMap(available, key)
             THEN [rest EXCEPT !.value = <<LowerMap(available, key)>> \o @]
             ELSE [rest EXCEPT !.ignored = <<Head(tokens)>> \o @]

\* all(tok.isdigit() for tok in tokens)
AllDigits(tokens) == \A i \in 1..Len(tokens) : IsDigit(tokens[i])

\* prompt_choose_genres after the list was fetched; typed is the line
\* input() returns
ResolveGenres(available, current_selection, typed) ==
    LET raw == Strip(typed)
        tokens == Tokens(raw)
    IN  IF raw = <<>> THEN Returned(current_selection, <<>>)
        ELSE IF tokens # <<>> /\ AllDigits(tokens)
        THEN ChosenByIndex(available, tokens)
        ELSE ChosenByName(available, tokens)

prompt_choose_genres(d, current_selection, typed) ==
    LET available == get_available_genres(d)
    IN  IF StoreFailure(d) # "" THEN Raised(StoreFailure(d))
        ELSE IF available = <<>> THEN Returned(<<>>, <<>>)
        ELSE ResolveGenres(available, current_selection, typed)

\* the loop of prompt_choose_years
RECURSIVE ChosenYears(_, _)
ChosenYears(available, tokens) ==
    IF tokens = <<>> THEN Returned(<<>>, <<>>)
    ELSE IF IsDigit(Head(tokens)) /\ ~IsDecimal(Head(tokens)) THEN Raised(ValueError)
    ELSE LET rest == ChosenYears(available, Tail(tokens))
         IN  IF rest.raised # "" THEN rest
             ELSE IF IsDigit(Head(tokens)) /\ IntOf(Head(tokens)) \in Range(available)
             THEN [rest EXCEPT !.value = <<IntOf(Head(tokens))>> \o @]
             ELSE [rest EXCEPT !.ignored = <<Head(tokens)>> \o @]

ResolveYears(available, current_selection, typed) ==
    LET raw == Strip(typed)
    IN  IF raw = <<>> THEN Returned(current_selection, <<>>)
        ELSE ChosenYears(available, Tokens(raw))

prompt_choose_years(d, current_selection, typed) ==
    LET available == get_available_years(d)
    IN  IF StoreFailure(d) # "" THEN Raised(StoreFailure(d))
        ELSE IF available = <<>> THEN Returned(<<>>, <<>>)
        ELSE ResolveYears(available, current_selection, typed)

\* choice "3" of filter_menu: blank keeps the rating, a number sets it, and
\* the ValueError of anything else is caught and reported
SetMinRating(current, typed) ==
    LET raw == Strip(typed)
    IN  IF raw = <<>> \/ ~ParsesAsFloat(raw) THEN current
        ELSE Some(FloatOf(raw))

(***************************************************************************)
(* Stores and typed lines the specifications draw from.                    *)
(***************************************************************************)
SeqsUpTo(S, n) == UNION {[1..k -> S] : k \in 0..n}

\* the lines a user can type at a prompt
RawInputs == SeqsUpTo(InputChars, MaxRaw)

Titles == {<<"A">>, <<"a">>}

Years == {1, 2}

Ratings == {1, 2}

MovieRows == [Name : Titles, Year : Years, Rating : Ratings]

\* the Genre_Id values of one movie's Movie_Genre rows, in row order
TagRows == {<<>>, <<2, 1>>}

RECURSIVE AssociationRows(_, _)
AssociationRows(tags, mid) ==
    IF mid > Len(tags) THEN <<>>
    ELSE [i \in 1..Len(tags[mid]) |-> <<mid, tags[mid][i]>>]
             \o AssociationRows(tags, mid + 1)

Store(genre, movie, tags) ==
    [exists |-> TRUE, readable |-> TRUE, Genre |-> genre, Movie |-> movie,
     Movie_Genre |-> AssociationRows(tags, 1)]

\* no database.db next to the script
MissingStore == [Store(<<>>, <<>>, <<>>) EXCEPT !.exists = FALSE, !.readable = FALSE]

\* a database.db that is no SQLite database
UnreadableStore == [Store(<<>>, <<>>, <<>>) EXCEPT !.readable = FALSE]

QueryGenres == <<(<<"Eacute">>), (<<"A">>)>>

QueryStores ==
    UNION {{Store(QueryGenres, m, t) : m \in [1..n -> MovieRows], t \in [1..n -> TagRows]}
              : n \in 0..MaxMovies}

\* what prompt_choose_genres can leave in selected_genres on a store with
\* the genres of QueryGenres
GenreSelections ==
    {prompt_choose_genres(Store(QueryGenres, <<>>, <<>>), <<>>, raw).value
         : raw \in RawInputs}

\* what prompt_choose_years can leave in selected_years: on a store with
\* every year of Years, and on store d, where a typed year is kept when d
\* has it
AllYearSelections ==
    {ResolveYears(DescendingYears(Years), <<>>, raw).value : raw \in RawInputs}

YearSelections(d) ==
    {y \in AllYearSelections : Range(y) \subseteq Range(get_available_years(d))}

\* what choice "3" can leave in min_rating
RatingSettings == {SetMinRating(None, <<c>>) : c \in InputChars}

(***************************************************************************)
(* SpecQuery: one call of fetch_all_movies or of apply_filters, on any     *)
(* store of QueryStores with any Filter State the prompts can produce.     *)
(***************************************************************************)
InitQuery ==
    /\ db \in QueryStores
    /\ pc = "call"
    /\ selected_genres = <<>>
    /\ selected_years = <<>>
    /\ min_rating = None
    /\ genre_match_all = FALSE
    /\ shown = None
    /\ last_op = ""
    /\ last_raw = None
    /\ warned = <<>>
    /\ err = ""

CallFetchAll ==
    /\ pc = "call"
    /\ pc' = "returned"
    /\ last_op' = "fetch_all_movies"
    /\ shown' = Some(fetch_all_movies(db))
    /\ UNCHANGED <<db, selected_genres, selected_years, min_rating,
                   genre_match_all, last_raw, warned, err>>

CallApplyFilters ==
    /\ pc = "call"
    /\ pc' = "returned"
    /\ last_op' = "apply_filters"
    /\ selected_genres' \in GenreSelections
    /\ selected_years' \in YearSelections(db)
    /\ min_rating' \in RatingSettings
    /\ genre_match_all' \in BOOLEAN
    /\ shown' = Some(apply_filters(db, selected_genres', selected_years',
                                   min_rating', genre_match_all'))
    /\ UNCHANGED <<db, last_raw, warned, err>>

NextQuery == CallFetchAll \/ CallApplyFilters

SpecQuery == InitQuery /\ [][NextQuery]_vars

\* the rows of the list on display
Rows == shown[1]

Filtered == pc = "returned" /\ last_op = "apply_filters"

MovieIds == 1..Len(db.Movie)

\* the names of the genres associated with movie mid
GenresOf(mid) ==
    {db.Genre[r[2]] : r \in {x \in Range(db.Movie_Genre) : x[1] = mid}}

\* movie mid has a genre whose name equals g, case ignored
HasGenre(mid, g) == \E n \in GenresOf(mid) : PyLower(n) = PyLower(g)

RowsOf(mid) == {i \in 1..Len(Rows) : Rows[i].id = mid}

\* C1: under ALL mode with no year or rating constraint, a movie is
\* returned if and only if it has every requested genre.
C1_AllModeIffEveryGenre ==
    (Filtered /\ genre_match_all /\ selected_genres # <<>>
        /\ selected_years = <<>> /\ min_rating = None) =>
        \A mid \in MovieIds :
            RowsOf(mid) # {} <=> \A g \in Range(selected_genres) : HasGenre(mid, g)

\* the three predicates of the Filter State under ANY mode
PassesAny(mid) ==
    /\ selected_genres = <<>> \/ \E g \in Range(selected_genres) : HasGenre(mid, g)
    /\ selected_years = <<>> \/ db.Movie[mid].Year \in Range(selected_years)
    /\ min_rating = None \/ db.Movie[mid].Rating >= min_rating[1]

\* C2: under ANY mode apply_filters returns exactly one row for each
\* movie that passes the genre, year and rating predicates together, and
\* no row for any other movie.
C2_AnyModeExactlyPassing ==
    (Filtered /\ ~genre_match_all) =>
        \A mid \in MovieIds :
            Cardinality(RowsOf(mid)) = IF PassesAny(mid) THEN 1 ELSE 0

\* C3: every row apply_filters returns carries the annotation the movie
\* has in fetch_all_movies, which lists all its genres.
C3_AnnotationAsInFetchAll ==
    Filtered =>
        \A i \in 1..Len(Rows) :
            \E j \in 1..Len(fetch_all_movies(db)) :
                /\ fetch_all_movies(db)[j].id = Rows[i].id
                /\ fetch_all_movies(db)[j].genres = Rows[i].genres

NoFilters == selected_genres = <<>> /\ selected_years = <<>> /\ min_rating = None

\* C4: with no genres, no years and no minimum rating, in either match
\* mode, apply_filters returns the rows of fetch_all_movies in the same
\* order, and a movie without genres is in the list with "" as annotation.
C4_UnfilteredIsFetchAll ==
    (pc = "returned" /\ (last_op = "apply_filters" => NoFilters)) =>
        /\ Rows = fetch_all_movies(db)
        /\ \A mid \in MovieIds :
               GenresOf(mid) = {} =>
                   \E i \in 1..Len(Rows) : Rows[i].id = mid /\ Rows[i].genres = <<>>

\* an unfiltered ALL-mode call on a store whose first movie has no genres
\* and sorts after its second movie
C4_Witness ==
    /\ Filtered /\ NoFilters /\ genre_match_all
    /\ Len(db.Movie) = 2
    /\ GenresOf(1) = {} /\ GenresOf(2) # {}
    /\ Rows[1].id = 2 /\ Rows[2].id = 1

\* C5: in every list fetch_all_movies or apply_filters returns, a row of a
\* later year precedes a row of an earlier year, and among rows of one year
\* the titles do not decrease.
C5_ResultOrdering ==
    pc = "returned" =>
        \A i, j \in 1..Len(Rows) :
            /\ Rows[i].year > Rows[j].year => i < j
            /\ (Rows[i].year = Rows[j].year /\ i < j) =>
                   ~StrLess(Rows[j].title, Rows[i].title)

\* a filtered call that returns both movies in the reverse of Id order
C5_Witness ==
    /\ Filtered /\ ~NoFilters
    /\ Len(Rows) = 2
    /\ Rows[1].id = 2 /\ Rows[2].id = 1
    /\ Rows[1].year > Rows[2].year

(***************************************************************************)
(* SpecPrompt: one call of prompt_choose_genres or prompt_choose_years     *)
(* from filter_menu, on any store of PromptStores with any typed line.     *)
(***************************************************************************)
\* genre names: plain ones, one of digits only, one that starts with a
\* digit, one with a space in front and one with a comma inside
NamePool ==
    {<<"A">>, <<"a">>, <<"2">>, <<"1", "a">>, <<" ", "a">>, <<"A", ",", "a">>}

\* the Genre tables: any names of the pool, two of them differing by case
\* only included, rows in descending order of name
RECURSIVE Reverse(_)
Reverse(s) == IF s = <<>> THEN <<>> ELSE Append(Reverse(Tail(s)), Head(s))

GenreTables ==
    {Reverse(AscendingNames(S)) : S \in SUBSET NamePool}

YearRows(ys) == [i \in 1..Len(ys) |-> [Name |-> <<"A">>, Year |-> ys[i], Rating |-> 1]]

PromptStores ==
    {Store(g, <<>>, <<>>) : g \in GenreTables}
        \cup {Store(<<>>, YearRows(ys), <<>>) : ys \in SeqsUpTo(Years, MaxMovies)}

\* the selections in place when the prompt is called: none, or the first
\* entry of the list the prompt displays
CurrentSelections(available) ==
    {<<>>} \cup (IF available = <<>> THEN {} ELSE {<<available[1]>>})

InitPrompt ==
    /\ db \in PromptStores
    /\ pc = "call"
    /\ selected_genres \in CurrentSelections(get_available_genres(db))
    /\ selected_years \in CurrentSelections(get_available_years(db))
    /\ selected_genres = <<>> <=> selected_years = <<>>
    /\ min_rating = Some(2)
    /\ genre_match_all = TRUE
    /\ shown = None
    /\ last_op = ""
    /\ last_raw = None
    /\ warned = <<>>
    /\ err = ""

\* choice "1" of filter_menu, selected_genres = prompt_choose_genres(...),
\* on a store with genres: input() is reached
AskGenres ==
    /\ pc = "call"
    /\ db.Genre # <<>>
    /\ \E typed \in RawInputs :
           LET r == prompt_choose_genres(db, selected_genres, typed)
           IN  /\ last_raw' = Some(typed)
               /\ selected_genres' = IF r.raised = "" THEN r.value ELSE selected_genres
               /\ warned' = r.ignored
               /\ err' = r.raised
    /\ pc' = "returned"
    /\ last_op' = "prompt_choose_genres"
    /\ UNCHANGED <<db, selected_years, min_rating, genre_match_all, shown>>

\* the same on a store without genres: [] is returned before any input()
NoGenres ==
    /\ pc = "call"
    /\ db.Genre = <<>>
    /\ pc' = "returned"
    /\ last_op' = "prompt_choose_genres"
    /\ selected_genres' = prompt_choose_genres(db, selected_genres, <<>>).value
    /\ UNCHANGED <<db, selected_years, min_rating, genre_match_all, shown,
                   last_raw, warned, err>>

\* choice "2" of filter_menu, selected_years = prompt_choose_years(...), on
\* a store with movies
AskYears ==
    /\ pc = "call"
    /\ db.Movie # <<>>
    /\ \E typed \in RawInputs :
           LET r == prompt_choose_years(db, selected_years, typed)
           IN  /\ last_raw' = Some(typed)
               /\ selected_years' = IF r.raised = "" THEN r.value ELSE selected_years
               /\ warned' = r.ignored
               /\ err' = r.raised
    /\ pc' = "returned"
    /\ last_op' = "prompt_choose_years"
    /\ UNCHANGED <<db, selected_genres, min_rating, genre_match_all, shown>>

\* the same on a store without movies
NoYears ==
    /\ pc = "call"
    /\ db.Movie = <<>>
    /\ pc' = "returned"
    /\ last_op' = "prompt_choose_years"
    /\ selected_years' = prompt_choose_years(db, selected_years, <<>>).value
    /\ UNCHANGED <<db, selected_genres, min_rating, genre_match_all, shown,
                   last_raw, warned, err>>

NextPrompt == AskGenres \/ NoGenres \/ AskYears \/ NoYears

SpecPrompt == InitPrompt /\ [][NextPrompt]_vars

\* the genre prompt has read the line last_raw[1]
GenresAsked == pc = "returned" /\ last_op = "prompt_choose_genres" /\ last_raw # None

TypedTokens == Tokens(Strip(last_raw[1]))

\* a token that is a numeral: decimal digits only
IsInteger(tok) == tok # <<>> /\ \A i \in 1..Len(tok) : tok[i] \in {"0", "1", "2"}

\* the candidates at the 1-based positions the tokens name, in input order
RECURSIVE AtPositions(_, _)
AtPositions(available, tokens) ==
    IF tokens = <<>> THEN <<>>
    ELSE (IF DecimalValue(Head(tokens)) \in 1..Len(available)
          THEN <<available[DecimalValue(Head(tokens))]>> ELSE <<>>)
             \o AtPositions(available, Tail(tokens))

\* the stored names the tokens equal when case is ignored, in input order
RECURSIVE NamedBy(_, _)
NamedBy(available, tokens) ==
    IF tokens = <<>> THEN <<>>
    ELSE (IF \E n \in Range(available) : PyLower(n) = PyLower(Head(tokens))
          THEN <<CHOOSE n \in Range(available) : PyLower(n) = PyLower(Head(tokens))>>
          ELSE <<>>)
             \o NamedBy(available, Tail(tokens))

\* C7: a batch of tokens that are all integers is resolved as 1-based
\* indices (in range: the candidate at that position, in input order; out
\* of range: dropped with a warning); a batch with a token that is not an
\* integer is matched as names, token by token, and no token is an index.
C7_AllOrNothingNumericGate ==
    (GenresAsked /\ TypedTokens # <<>>) =>
        LET available == get_available_genres(db)
            allInt == \A i \in 1..Len(TypedTokens) : IsInteger(TypedTokens[i])
        IN  /\ err = ""
            /\ allInt =>
                   /\ selected_genres = AtPositions(available, TypedTokens)
                   /\ warned = SelectSeq(TypedTokens, LAMBDA t :
                                   DecimalValue(t) \notin 1..Len(available))
            /\ ~allInt =>
                   /\ selected_genres = NamedBy(available, TypedTokens)
                   /\ warned = SelectSeq(TypedTokens, LAMBDA t :
                                   \A n \in Range(available) : PyLower(n) # PyLower(t))

Asked == last_op' \in {"prompt_choose_genres", "prompt_choose_years"} /\ last_raw' # None

\* C8: at the genre or year prompt an empty entry leaves that selection
\* and the rest of the Filter State as they were; a non-empty entry
\* replaces the selection by what its tokens resolve to, one value for
\* each token that is not dropped, none when every token is dropped.
C8_KeepCurrentOrReplace ==
    [][Asked =>
        LET tokens == Tokens(Strip(last_raw'[1]))
            chosen == IF last_op' = "prompt_choose_genres"
                      THEN selected_genres' ELSE selected_years'
        IN  /\ Strip(last_raw'[1]) = <<>> =>
                   UNCHANGED <<selected_genres, selected_years, min_rating,
                               genre_match_all>>
            /\ Strip(last_raw'[1]) # <<>> =>
                   /\ err' = ""
                   /\ Len(chosen) + Len(warned') = Len(tokens)
                   /\ Len(warned') = Len(tokens) => chosen = <<>>
            /\ last_op' = "prompt_choose_genres" =>
                   UNCHANGED <<selected_years, min_rating, genre_match_all>>
            /\ last_op' = "prompt_choose_years" =>
                   UNCHANGED <<selected_genres, min_rating, genre_match_all>>]_vars

\* the line typed is the stored name g, and nothing else
TypedName(g) == GenresAsked /\ last_raw[1] = g /\ g \in Range(get_available_genres(db))

\* the stored genre names are unique when case is ignored
UniqueIgnoringCase ==
    \A x, y \in Range(db.Genre) : PyLower(x) = PyLower(y) => x = y

PlainName(g) == ~IsDigit(g) /\ Tokens(g) = <<g>>

MaxEntry == 1

Entries == SeqsUpTo(InputChars, MaxEntry)

SampleStore ==
    Store(QueryGenres, <<[Name |-> <<"A">>, Year |-> 2, Rating |-> 2]>>, <<(<<2, 1>>)>>)

SessionStores == {MissingStore, UnreadableStore, Store(<<>>, <<>>, <<>>), SampleStore}

Init ==
    /\ db \in SessionStores
    /\ pc = "main"
    /\ selected_genres = <<>>
    /\ selected_years = <<>>
    /\ min_rating = None
    /\ genre_match_all = FALSE
    /\ shown = None
    /\ last_op = "start"
    /\ last_raw = None
    /\ warned = <<>>
    /\ err = ""

FilterState == <<selected_genres, selected_years, min_rating, genre_match_all>>

\* an exception reaches the except clauses of main: it is printed and the
\* program ends; filter_menu's locals are gone
Fails(e) ==
    /\ err' = e
    /\ pc' = "exit"
    /\ shown' = None
    /\ selected_genres' = <<>>
    /\ selected_years' = <<>>
    /\ min_rating' = None
    /\ genre_match_all' = FALSE

\* mutant of ViewAll: the exception is caught inside the loop of main
ViewAllCaughtInLoop ==
    /\ pc = "main"
    /\ last_op' = "view_all"
    /\ IF StoreFailure(db) # ""
       THEN /\ err' = StoreFailure(db)
            /\ shown' = None
            /\ UNCHANGED <<pc, FilterState>>
       ELSE /\ shown' = Some(fetch_all_movies(db))
            /\ UNCHANGED <<pc, err, FilterState>>
    /\ UNCHANGED <<db, last_raw, warned>>

\* main, ch == "1"
ViewAll ==
    /\ pc = "main"
    /\ last_op' = "view_all"
    /\ IF StoreFailure(db) # "" THEN Fails(StoreFailure(db))
       ELSE /\ shown' = Some(fetch_all_movies(db))
            /\ UNCHANGED <<pc, err, FilterState>>
    /\ UNCHANGED <<db, last_raw, warned>>

\* main, ch == "2": filter_menu starts with its locals initialised
EnterFilterMenu ==
    /\ pc = "main"
    /\ pc' = "filter"
    /\ last_op' = "filter_menu"
    /\ selected_genres' = <<>>
    /\ selected_years' = <<>>
    /\ min_rating' = None
    /\ genre_match_all' = FALSE
    /\ shown' = None
    /\ UNCHANGED <<db, last_raw, warned, err>>

\* main, ch == "3"
Exit ==
    /\ pc = "main"
    /\ pc' = "exit"
    /\ last_op' = "exit"
    /\ shown' = None
    /\ UNCHANGED <<db, FilterState, last_raw, warned, err>>

\* main, any other choice
MainInvalidChoice ==
    /\ pc = "main"
    /\ last_op' = "invalid"
    /\ shown' = None
    /\ UNCHANGED <<db, pc, FilterState, last_raw, warned, err>>

\* filter_menu, choice == "1"
ChooseGenres ==
    /\ pc = "filter"
    /\ last_op' = "choose_genres"
    /\ \E typed \in IF StoreFailure(db) = "" /\ db.Genre # <<>> THEN Entries ELSE {<<>>} :
           LET r == prompt_choose_genres(db, selected_genres, typed)
           IN  IF r.raised # "" THEN Fails(r.raised)
               ELSE /\ selected_genres' = r.value
                    /\ shown' = None
                    /\ UNCHANGED <<pc, err, selected_years, min_rating, genre_match_all>>
    /\ UNCHANGED <<db, last_raw, warned>>

\* filter_menu, choice == "2"
ChooseYears ==
    /\ pc = "filter"
    /\ last_op' = "choose_years"
    /\ \E typed \in IF StoreFailure(db) = "" /\ db.Movie # <<>> THEN Entries ELSE {<<>>} :
           LET r == prompt_choose_years(db, selected_years, typed)
           IN  IF r.raised # "" THEN Fails(r.raised)
               ELSE /\ selected_years' = r.value
                    /\ shown' = None
                    /\ UNCHANGED <<pc, err, selected_genres, min_rating, genre_match_all>>
    /\ UNCHANGED <<db, last_raw, warned>>

\* filter_menu, choice == "3"
SetMinimumRating ==
    /\ pc = "filter"
    /\ last_op' = "set_rating"
    /\ \E typed \in Entries : min_rating' = SetMinRating(min_rating, typed)
    /\ shown' = None
    /\ UNCHANGED <<db, pc, selected_genres, selected_years, genre_match_all,
                   last_raw, warned, err>>

\* filter_menu, choice == "4"
ToggleMatchMode ==
    /\ pc = "filter"
    /\ last_op' = "toggle"
    /\ genre_match_all' = ~genre_match_all
    /\ shown' = None
    /\ UNCHANGED <<db, pc, selected_genres, selected_years, min_rating,
                   last_raw, warned, err>>

\* filter_menu, choice == "5"
ShowResults ==
    /\ pc = "filter"
    /\ last_op' = "show_results"
    /\ IF StoreFailure(db) # "" THEN Fails(StoreFailure(db))
       ELSE /\ shown' = Some(apply_filters(db, selected_genres, selected_years,
                                           min_rating, genre_match_all))
            /\ UNCHANGED <<pc, err, FilterState>>
    /\ UNCHANGED <<db, last_raw, warned>>

\* mutant of ClearFilters: min_rating is not reset
ClearFiltersKeepingRating ==
    /\ pc = "filter"
    /\ last_op' = "clear"
    /\ selected_genres' = <<>>
    /\ selected_years' = <<>>
    /\ shown' = None
    /\ UNCHANGED <<db, pc, min_rating, genre_match_all, last_raw, warned, err>>

\* filter_menu, choice == "6"
ClearFilters ==
    /\ pc = "filter"
    /\ last_op' = "clear"
    /\ selected_genres' = <<>>
    /\ selected_years' = <<>>
    /\ min_rating' = None
    /\ shown' = None
    /\ UNCHANGED <<db, pc, genre_match_all, last_raw, warned, err>>

\* filter_menu, choice == "7": back in main's loop, the locals are gone
BackToMainMenu ==
    /\ pc = "filter"
    /\ pc' = "main"
    /\ last_op' = "back"
    /\ selected_genres' = <<>>
    /\ selected_years' = <<>>
    /\ min_rating' = None
    /\ genre_match_all' = FALSE
    /\ shown' = None
    /\ UNCHANGED <<db, last_raw, warned, err>>

\* filter_menu, any other choice
FilterInvalidChoice ==
    /\ pc = "filter"
    /\ last_op' = "invalid"
    /\ shown' = None
    /\ UNCHANGED <<db, pc, FilterState, last_raw, warned, err>>

Next ==
    \/ ViewAll
    \/ EnterFilterMenu
    \/ Exit
    \/ MainInvalidChoice
    \/ ChooseGenres
    \/ ChooseYears
    \/ SetMinimumRating
    \/ ToggleMatchMode
    \/ ShowResults
    \/ ClearFilters
    \/ BackToMainMenu
    \/ FilterInvalidChoice

Spec == Init /\ [][Next]_vars

\* C6 as claimed: after the clear action the whole Filter State is as it
\* is when the filter menu is entered: no genres, no years, no minimum
\* rating, match mode ANY.
C6_ClearResetsWholeFilterState ==
    (pc = "filter" /\ last_op = "clear") =>
        /\ selected_genres = <<>>
        /\ selected_years = <<>>
        /\ min_rating = None
        /\ genre_match_all = FALSE

\* C6 as amended: the clear action leaves no genres, no years and no
\* minimum rating selected, and leaves the match mode as it was.
C6_ClearResetsSelectionsKeepsMode ==
    [][last_op' = "clear" =>
          /\ pc' = "filter"
          /\ selected_genres' = <<>>
          /\ selected_years' = <<>>
          /\ min_rating' = None
          /\ genre_match_all' = genre_match_all]_vars

\* the filters were cleared while the match mode was ALL
C6_Witness == pc = "filter" /\ last_op = "clear" /\ genre_match_all

\* the commands that query the store
AccessorOps == {"view_all", "choose_genres", "choose_years", "show_results"}

StoreFailed == StoreFailure(db) # "" /\ last_op \in AccessorOps

\* C10 as claimed: when a command fails because the store is missing or
\* unreadable, the error is shown and the session still takes a command.
C10_SessionContinuesAfterStoreFailure ==
    StoreFailed => (err = StoreFailure(db) /\ pc \in {"main", "filter"})

\* C10 as amended: when a command fails because the store is missing or
\* unreadable, the error is shown and the session ends: the program takes
\* no further command.
C10_SessionEndsAfterStoreFailure ==
    /\ [](StoreFailed => (err = StoreFailure(db) /\ pc = "exit"))
    /\ [][pc # "exit"]_vars

\* show results failed on the missing store
C10_Witness ==
    /\ ~db.exists
    /\ last_op = "show_results"
    /\ err = "FileNotFoundError"
    /\ pc = "exit"

====
